---- MODULE Spec2Model ----
(***************************************************************************)
(* A model of five plugins of the con-queso repository:                    *)
(*   SortingHat          src/sortinghat/sortinghat.py                      *)
(*   ActivityTracker     src/activitytracker/activitytracker.py            *)
(*   LowEngagement       src/lowengagement/lowengagement.py                *)
(*   AdvancedRoleRewards src/advancedrolerewards/advancedrolerewards.py    *)
(*   CraftyAllowlist     src/craftyallowlist/craftyallowlist.py            *)
(* Every plugin keeps its data per guild (and per member of a guild) and   *)
(* never lets one guild's data reach another's, so one guild is modelled.  *)
(* Each plugin has its own specification (SpecSH, ...); the variables of   *)
(* the other plugins keep their initial values under it.                   *)
(***************************************************************************)
EXTENDS Integers, Sequences, FiniteSets, TLC

Range(s) == {s[i] : i \in 1..Len(s)}

\* s without its element x
Without(s, x) == SelectSeq(s, LAMBDA y : y /= x)

(***************************************************************************)
(*                              SortingHat                                 *)
(***************************************************************************)

\* ctx.guild.members, in the order sh_sortunsorted iterates it; b1 is a bot.
GuildMembers == <<"m1", "b1", "m2">>
Members == Range(GuildMembers)
IsBot(m) == m = "b1"
NoMember == "none"

\* The roles of the guild that can be configured as houses.
Roles == {"h1"}

\* The rate limit of _process_queue, in seconds.
RateLimit == 3600

\* default_guild["sort_level"]; sh_level is given the levels up to it.
DefaultSortLevel == 2
SortLevels == 1..DefaultSortLevel

\* Bounds of the SortingHat model.
MaxLevel == 2
MaxTasks == 2
SHMaxTicks == 3

\* The clock advances in steps of half the rate limit; time.time() at start-up
\* is at least one rate limit past the default last_sort_times of 0.0.
SHTickStep == RateLimit \div 2
SHStartTime == RateLimit
NoGap == 0 - 1

TaskIds == 1..MaxTasks
\* A slot of tasks that holds no live task: no task yet, or one that is done.
IdleTask == [pc |-> "done", member |-> NoMember, wake |-> 0, started |-> 0]
IdleScan == [pc |-> "idle", idx |-> 0, target_level |-> 0, house_ids |-> {},
             added_count |-> 0]

VARIABLES
    now,              \* time.time()
    sh_enabled,       \* config.guild.enabled
    house_roles,      \* config.guild.house_roles
    sort_level,       \* config.guild.sort_level
    levelup_loaded,   \* bot.get_cog("LevelUp") is not None
    level,            \* LevelUp's level of each member
    roles,            \* member.roles, restricted to Roles
    guild_queues,     \* self.guild_queues[guild.id]
    active_tasks,     \* self.active_tasks[guild.id]: a task id, 0 when absent
    tasks,            \* the _process_queue tasks created so far
    last_sort_times,  \* self.last_sort_times[guild.id]
    scan,             \* the running sh_sortunsorted command
    pending,          \* history: ids appended and not yet popped, oldest first
    fifo_ok,          \* history: every pop so far took the oldest pending id
    sort_end,         \* history: time the latest sort_member call returned
    n_appended,       \* history: how many member ids the running scan appended
    \* ActivityTracker, policing
    pol_now,          \* datetime.utcnow().timestamp()
    preview_mode,     \* config.guild.preview_mode
    report_channel,   \* config.guild.report_channel
    policing_rules,   \* config.guild.policing_rules
    in_guild,         \* guild.members
    pol_last_active,  \* config.member.last_active
    last_policed,     \* config.member.last_policed
    last_run,         \* history: what the latest run_policing saw and did
    \* ActivityTracker, activity
    at_now,           \* datetime.utcnow().timestamp()
    msg_threshold,    \* config.guild.msg_threshold
    msg_window_hours, \* config.guild.msg_window_hours
    min_chars,        \* config.guild.min_chars
    ignore_commands,  \* config.guild.ignore_commands
    ignored_channels, \* config.guild.ignored_channels
    voice_min_minutes, \* config.guild.voice_min_minutes
    voice_min_users,  \* config.guild.voice_min_users
    last_active,      \* config.member.last_active
    message_history,  \* config.member.message_history
    voice_start,      \* config.member.voice_start
    voice,            \* member.voice.channel, NoChannel outside voice
    last_msg,         \* history: the latest message on_message was given
    \* LowEngagement
    le_now,           \* datetime.now(timezone.utc).timestamp()
    le_enabled,       \* config.guild.enabled
    emoji_streak_limit, \* config.guild.emoji_streak_limit
    time_window_days, \* config.guild.time_window_days
    max_level_ignored, \* config.guild.max_level_ignored
    le_level,         \* LevelUp's level of each member
    streak,           \* config.member.streak
    last_emoji_ts,    \* config.member.last_emoji_ts
    is_flagged,       \* config.member.is_flagged
    last_le,          \* history: the latest message or mark and its warn call
    lvl1_returned,    \* history: members a level-1 warn call returned for
    run_len,          \* history: emoji-only messages in a row, per member
    run_ts,           \* history: time of the latest of them
    \* AdvancedRoleRewards
    rr_present,       \* guild.members
    rr_level,         \* what get_member_level returns for each member
    rr_days,          \* what get_tenure_days returns for each member
    rr_roles,         \* member.roles
    advanced_rewards, \* config.guild.advanced_rewards
    multistep_rewards, \* config.guild.multistep_rewards, [] for a name not in it
    last_rr,          \* history: the latest process_member_rewards, while nothing
                      \* has changed since
    \* CraftyAllowlist
    crafty,           \* which of config.guild.url, token, server_id are set
    req_role,         \* config.guild.req_role
    req_days,         \* config.guild.req_days
    req_level,        \* config.guild.req_level
    notify_channel,   \* config.guild.notify_channel
    ca_roles,         \* member.roles
    ca_days,          \* (utcnow() - member.joined_at).days
    ca_level,         \* LevelUp's level of each member
    bedrock_gamertag, \* config.user.bedrock_gamertag
    notified_eligible, \* config.member.notified_eligible
    added_to_allowlist, \* config.member.added_to_allowlist
    handlers,         \* the running calls of check_eligibility_and_allow
    notifications,    \* history: eligibility notifications sent to each member
    auto_adds         \* history: automatic 'allowlist add' commands Crafty took
                      \* for each member since the member was last removed

sh_conf == <<sh_enabled, house_roles, sort_level, levelup_loaded>>
sh_queue == <<guild_queues, active_tasks, tasks, pending, fifo_ok>>
sh_sorts == <<last_sort_times, sort_end>>
sh_scan == <<scan, n_appended>>
sh_vars == <<now, sh_conf, level, roles, sh_queue, sh_sorts, sh_scan>>

pol_conf == <<preview_mode, report_channel, policing_rules>>
pol_vars == <<pol_now, pol_conf, in_guild, pol_last_active, last_policed, last_run>>

act_conf == <<msg_threshold, msg_window_hours, min_chars, ignore_commands,
              ignored_channels, voice_min_minutes, voice_min_users>>
act_msg == <<message_history, last_msg>>
act_voice == <<voice_start, voice>>
act_vars == <<at_now, act_conf, last_active, act_msg, act_voice>>

le_conf == <<le_enabled, emoji_streak_limit, time_window_days, max_level_ignored>>
le_streaks == <<streak, last_emoji_ts, run_len, run_ts>>
le_warns == <<is_flagged, last_le, lvl1_returned>>
le_vars == <<le_now, le_conf, le_level, le_streaks, le_warns>>

rr_conf == <<advanced_rewards, multistep_rewards>>
rr_member == <<rr_present, rr_level, rr_days, rr_roles>>
rr_vars == <<rr_conf, rr_member, last_rr>>

ca_conf == <<crafty, req_role, req_days, req_level, notify_channel>>
ca_member == <<ca_roles, ca_days, ca_level>>
ca_flags == <<notified_eligible, added_to_allowlist>>
ca_sent == <<notifications, auto_adds>>
ca_vars == <<ca_conf, ca_member, bedrock_gamertag, ca_flags, handlers, ca_sent>>

vars == <<sh_vars, pol_vars, act_vars, le_vars, rr_vars, ca_vars>>
not_sh == <<pol_vars, act_vars, le_vars, rr_vars, ca_vars>>
not_pol == <<sh_vars, act_vars, le_vars, rr_vars, ca_vars>>
not_act == <<sh_vars, pol_vars, le_vars, rr_vars, ca_vars>>
not_le == <<sh_vars, pol_vars, act_vars, rr_vars, ca_vars>>
not_rr == <<sh_vars, pol_vars, act_vars, le_vars, ca_vars>>
not_ca == <<sh_vars, pol_vars, act_vars, le_vars, rr_vars>>

SHInit ==
    /\ now = SHStartTime
    /\ sh_enabled = FALSE
    /\ house_roles = {}
    /\ sort_level = DefaultSortLevel
    /\ levelup_loaded \in BOOLEAN
    /\ level = [m \in Members |-> 0]
    /\ roles = [m \in Members |-> {}]
    /\ guild_queues = <<>>
    /\ active_tasks = 0
    /\ tasks = [t \in TaskIds |-> IdleTask]
    /\ last_sort_times = 0
    /\ scan = IdleScan
    /\ pending = <<>>
    /\ fifo_ok = TRUE
    /\ sort_end = NoGap
    /\ n_appended = 0

\* get_assigned_house(guild, member) is not None
HasHouse(m, house_ids) == roles[m] \cap house_ids /= {}

\* _ensure_processor_running without its test of active_tasks.
AlwaysCreateProcessor ==
    /\ \E t \in TaskIds : tasks[t].pc = "done"
    /\ LET t == CHOOSE t \in TaskIds : tasks[t].pc = "done"
       IN /\ tasks' = [tasks EXCEPT ![t] = [pc |-> "start", member |-> NoMember, wake |-> 0, started |-> 0]]
          /\ active_tasks' = t

\* _ensure_processor_running: a new task unless one is registered and not done.
ensure_processor_running ==
    IF active_tasks = 0 \/ tasks[active_tasks].pc = "done"
    THEN /\ \E t \in TaskIds : tasks[t].pc = "done"
         /\ LET t == CHOOSE t \in TaskIds : tasks[t].pc = "done"
            IN /\ tasks' = [tasks EXCEPT ![t] = [pc |-> "start", member |-> NoMember, wake |-> 0, started |-> 0]]
               /\ active_tasks' = t
    ELSE UNCHANGED <<active_tasks, tasks>>

\* enqueue_member
enqueue_member(m) ==
    IF m \in Range(guild_queues)
    THEN UNCHANGED <<guild_queues, active_tasks, tasks, pending>>
    ELSE /\ guild_queues' = Append(guild_queues, m)
         /\ pending' = Append(pending, m)
         /\ ensure_processor_running

\* The end of _process_queue: the guild's entry of active_tasks is deleted.
Finish(t) ==
    /\ tasks' = [tasks EXCEPT ![t] = IdleTask]
    /\ active_tasks' = 0

NextMemberNewest(q) == q[Len(q)]

\* self.guild_queues[guild.id].pop(0)
NextMember(q) == Head(q)
RestQueue(q) == Tail(q)

\* Lines 92-100: leave when the queue is empty, else pop the next member and
\* await get_assigned_house.
PopNext(t) ==
    IF guild_queues = <<>>
    THEN Finish(t) /\ UNCHANGED <<guild_queues, pending, fifo_ok>>
    ELSE /\ guild_queues' = RestQueue(guild_queues)
         /\ pending' = Without(pending, NextMember(guild_queues))
         /\ fifo_ok' = (fifo_ok /\ NextMember(guild_queues) = Head(pending))
         /\ tasks' = [tasks EXCEPT ![t] = [pc |-> "check", member |-> NextMember(guild_queues), wake |-> 0, started |-> 0]]
         /\ UNCHANGED active_tasks

\* elapsed < 3600
RateLimited(elapsed) == elapsed < RateLimit

WaitTimeTooShort(elapsed) == SHTickStep - elapsed

\* 3600 - elapsed
WaitTime(elapsed) == RateLimit - elapsed

\* Lines 80-89: the head of the while loop, given the last sort time of this step.
LoopTop(t, last_time) ==
    IF guild_queues = <<>>
    THEN Finish(t) /\ UNCHANGED <<guild_queues, pending, fifo_ok>>
    ELSE IF RateLimited(now - last_time)
         THEN /\ tasks' = [tasks EXCEPT ![t] = [pc |-> "sleep", member |-> NoMember,
                                                 wake |-> now + WaitTime(now - last_time), started |-> 0]]
              /\ UNCHANGED <<guild_queues, pending, fifo_ok, active_tasks>>
         ELSE PopNext(t)

\* The task is scheduled for the first time.
ProcStart(t) ==
    /\ tasks[t].pc = "start"
    /\ LoopTop(t, last_sort_times)
    /\ UNCHANGED <<now, sh_conf, level, roles, sh_sorts, sh_scan, not_sh>>

\* asyncio.sleep(wait_time) returns.
ProcWake(t) ==
    /\ tasks[t].pc = "sleep"
    /\ now >= tasks[t].wake
    /\ PopNext(t)
    /\ UNCHANGED <<now, sh_conf, level, roles, sh_sorts, sh_scan, not_sh>>

\* get_assigned_house returns: skip a member who has a house, else call sort_member.
ProcCheck(t) ==
    /\ tasks[t].pc = "check"
    /\ IF HasHouse(tasks[t].member, house_roles)
       THEN LoopTop(t, last_sort_times)
       ELSE /\ tasks' = [tasks EXCEPT ![t].pc = "sort", ![t].started = now]
            /\ UNCHANGED <<guild_queues, pending, fifo_ok, active_tasks>>
    /\ UNCHANGED <<now, sh_conf, level, roles, last_sort_times, sort_end,
                   sh_scan, not_sh>>

\* sort_member: a random configured house is added to the member, unless no
\* house is configured or add_roles fails (Forbidden, HTTPException).
sort_member(m) ==
    \/ /\ house_roles = {}
       /\ UNCHANGED roles
    \/ /\ house_roles /= {}
       /\ \E h \in house_roles : roles' = [roles EXCEPT ![m] = @ \cup {h}]
    \/ /\ house_roles /= {}
       /\ UNCHANGED roles

\* sort_member returns; last_sort_times is updated and the loop goes on.
ProcSort(t) ==
    /\ tasks[t].pc = "sort"
    /\ sort_member(tasks[t].member)
    /\ last_sort_times' = now
    /\ sort_end' = now
    /\ LoopTop(t, now)
    /\ UNCHANGED <<now, sh_conf, level, sh_scan, not_sh>>

\* LevelUp raises a member's level and dispatches on_member_levelup.
on_member_levelup(m) ==
    /\ levelup_loaded
    /\ level[m] < MaxLevel
    /\ level' = IF IsBot(m) THEN level ELSE [level EXCEPT ![m] = @ + 1]
    /\ IF ~IsBot(m) /\ sh_enabled /\ level[m] + 1 = sort_level /\ ~HasHouse(m, house_roles)
       THEN enqueue_member(m)
       ELSE UNCHANGED <<guild_queues, active_tasks, tasks, pending>>
    /\ UNCHANGED <<now, sh_conf, roles, fifo_ok, sh_sorts, sh_scan, not_sh>>

sh_toggle ==
    /\ sh_enabled' = ~sh_enabled
    /\ UNCHANGED <<now, house_roles, sort_level, levelup_loaded, level, roles, sh_queue,
                   sh_sorts, sh_scan, not_sh>>

sh_addhouse(r) ==
    /\ r \notin house_roles
    /\ house_roles' = house_roles \cup {r}
    /\ UNCHANGED <<now, sh_enabled, sort_level, levelup_loaded, level, roles, sh_queue,
                   sh_sorts, sh_scan, not_sh>>

sh_delhouse(r) ==
    /\ r \in house_roles
    /\ house_roles' = house_roles \ {r}
    /\ UNCHANGED <<now, sh_enabled, sort_level, levelup_loaded, level, roles, sh_queue,
                   sh_sorts, sh_scan, not_sh>>

sh_level(l) ==
    /\ l >= 1
    /\ sort_level' = l
    /\ UNCHANGED <<now, sh_enabled, house_roles, levelup_loaded, level, roles, sh_queue,
                   sh_sorts, sh_scan, not_sh>>

\* sh_sortunsorted up to the scan loop: nothing is scanned without LevelUp or
\* without a configured house.
ScanStart ==
    /\ scan.pc = "idle"
    /\ levelup_loaded
    /\ house_roles /= {}
    /\ scan' = [pc |-> "run", idx |-> 1, target_level |-> sort_level,
                house_ids |-> house_roles, added_count |-> 0]
    /\ n_appended' = 0
    /\ UNCHANGED <<now, sh_conf, level, roles, sh_queue, sh_sorts, not_sh>>

LevelTooLowOrEqual(lvl, target_level) == lvl <= target_level

\* lvl < target_level
LevelTooLow(lvl, target_level) == lvl < target_level

\* One iteration of the scan loop, for the member at scan.idx.
ScanStep ==
    /\ scan.pc = "run"
    /\ scan.idx <= Len(GuildMembers)
    /\ LET m == GuildMembers[scan.idx]
           next == [scan EXCEPT !.idx = @ + 1]
       IN /\ IF IsBot(m)
             THEN /\ scan' = next
                  /\ UNCHANGED <<guild_queues, active_tasks, tasks, pending>>
             ELSE IF HasHouse(m, scan.house_ids)
             THEN /\ scan' = next
                  /\ UNCHANGED <<guild_queues, active_tasks, tasks, pending>>
             ELSE IF LevelTooLow(level[m], scan.target_level)
             THEN /\ scan' = next
                  /\ UNCHANGED <<guild_queues, active_tasks, tasks, pending>>
             ELSE IF m \notin Range(guild_queues)
             THEN /\ enqueue_member(m)
                  /\ scan' = [next EXCEPT !.added_count = @ + 1]
             ELSE /\ scan' = next
                  /\ UNCHANGED <<guild_queues, active_tasks, tasks, pending>>
    /\ n_appended' = n_appended + (Len(guild_queues') - Len(guild_queues))
    /\ UNCHANGED <<now, sh_conf, level, roles, fifo_ok, sh_sorts, not_sh>>

\* The scan is over: the summary (scan.added_count, the queue's length, the two
\* skip counts) is sent and the command returns.
ScanEnd ==
    /\ scan.pc = "run"
    /\ scan.idx > Len(GuildMembers)
    /\ scan' = IdleScan
    /\ n_appended' = 0
    /\ UNCHANGED <<now, sh_conf, level, roles, sh_queue, sh_sorts, not_sh>>

\* Time passes.
SHTick ==
    /\ now < SHStartTime + SHMaxTicks * SHTickStep
    /\ now' = now + SHTickStep
    /\ UNCHANGED <<sh_conf, level, roles, sh_queue, sh_sorts, sh_scan, not_sh>>

SHNext ==
    \/ \E t \in TaskIds : ProcStart(t)
    \/ \E t \in TaskIds : ProcWake(t)
    \/ \E t \in TaskIds : ProcCheck(t)
    \/ \E t \in TaskIds : ProcSort(t)
    \/ \E m \in Members : on_member_levelup(m)
    \/ sh_toggle
    \/ \E r \in Roles : sh_addhouse(r)
    \/ \E r \in Roles : sh_delhouse(r)
    \/ \E l \in SortLevels : sh_level(l)
    \/ ScanStart
    \/ ScanStep
    \/ ScanEnd
    \/ SHTick

(***************************************************************************)
(*                     ActivityTracker: policing                           *)
(***************************************************************************)

\* guild.members in iteration order: a member and a bot. run_policing treats
\* every member alike and on its own.
PolMembers == <<"u1", "bot">>
PolIsBot(m) == m = "bot"
PolHumans == {m \in Range(PolMembers) : ~PolIsBot(m)}

None == 0 - 1
NoRule == [level |-> None, days |-> None, action |-> "none", cooldown |-> None]
DaySeconds == 86400

\* Inputs of rule_add.
RuleLevels == {1}
RuleDays == {1, 2}
RuleActions == {"kick", "warn", "mention"}
RuleCooldowns == {2}

\* Bounds of the policing model.
MaxRules == 2
PolMaxTicks == 2

\* The clock starts a day after the members joined and advances by a day.
PolTickStep == DaySeconds
PolStartTime == DaySeconds
JoinedAt(m) == PolStartTime - DaySeconds

\* last_run: flip changes with every run; due holds the members a rule applies
\* to, executed the <<member, rule>> pairs _execute_policing_action was called
\* with, report the <<member, action, mark>> entries of the report.
NoRun == [flip |-> FALSE, mode |-> "none", due |-> {}, executed |-> {}, report |-> {},
          report_to |-> "none"]

PolInit ==
    /\ pol_now = PolStartTime
    /\ preview_mode = TRUE
    /\ report_channel = None
    /\ policing_rules = {}
    /\ in_guild = Range(PolMembers)
    /\ pol_last_active = [m \in PolHumans |-> None]
    /\ last_policed = [m \in PolHumans |-> None]
    /\ last_run = NoRun

\* The key applicable_rules is sorted by, descending: (days, -level).
RuleBefore(r1, r2) ==
    \/ r1.days > r2.days
    \/ r1.days = r2.days /\ r1.level < r2.level

\* _get_applicable_rule, with days_inactive given in seconds: of the rules
\* whose level cap the user is under, the first in sorted order whose days have
\* passed.
get_applicable_rule(rules, user_level, inactive) ==
    LET applicable == {r \in rules : user_level <= r.level}
        passed == {r \in applicable : inactive >= r.days * DaySeconds}
    IN IF passed = {} THEN NoRule
       ELSE CHOOSE r \in passed : \A o \in passed \ {r} : RuleBefore(r, o)

OnCooldownInHours(policed, cooldown) ==
    policed /= None /\ pol_now - policed < cooldown * 3600

\* days_since_policed < cooldown, for a warn or mention.
OnCooldown(policed, cooldown) ==
    policed /= None /\ pol_now - policed < cooldown * DaySeconds

InPreviewIgnored(preview) == FALSE

\* conf["preview_mode"], where the loop decides between reporting and acting.
InPreview(preview) == preview

\* The rule run_policing applies to member m, NoRule when it skips the member.
RuleFor(m, hib, lv) ==
    IF m \notin in_guild \/ m \in hib THEN NoRule
    ELSE get_applicable_rule(policing_rules, lv[m],
             pol_now - (IF pol_last_active[m] = None THEN JoinedAt(m)
                        ELSE pol_last_active[m]))

\* What run_policing does with member m under the rule that applies: the
\* report entry is marked ON COOLDOWN, left unmarked in preview mode, or marked
\* EXECUTED after _execute_policing_action.
Outcome(m, rule, preview) ==
    IF rule = NoRule THEN "none"
    ELSE IF rule.action \in {"warn", "mention"} /\ OnCooldown(last_policed[m], rule.cooldown)
    THEN "cooldown"
    ELSE IF InPreview(preview) THEN "preview"
    ELSE "executed"

\* run_policing for the guild; manual is TRUE for manual_report_ctx.  The
\* hibernating members and the members' levels are what Hibernate and LevelUp
\* answer during the run, and the members of kickable are below the bot in the
\* role hierarchy.  An hourly run skips a guild in preview mode.
run_policing(manual, hib, lv, kickable) ==
    LET skipped == preview_mode /\ ~manual
        rule == [m \in PolHumans |-> IF skipped THEN NoRule ELSE RuleFor(m, hib, lv)]
        outcome == [m \in PolHumans |-> Outcome(m, rule[m], preview_mode)]
        acts == {m \in PolHumans : outcome[m] = "executed"}
        entries == {m \in PolHumans : outcome[m] /= "none"}
    IN /\ last_policed' = [m \in PolHumans |->
               IF m \in acts /\ rule[m].action \in {"warn", "mention"}
               THEN pol_now ELSE last_policed[m]]
       /\ in_guild' = in_guild \ {m \in acts : rule[m].action = "kick" /\ m \in kickable}
       /\ last_run' = [flip |-> ~last_run.flip,
                       mode |-> IF manual THEN "manual" ELSE "hourly",
                       due |-> {m \in PolHumans : RuleFor(m, hib, lv) /= NoRule},
                       executed |-> {<<m, rule[m]>> : m \in acts},
                       report |-> {<<m, rule[m].action, outcome[m]>> : m \in entries},
                       report_to |-> IF entries = {} THEN "none"
                                     ELSE IF manual THEN "ctx"
                                     ELSE IF report_channel /= None THEN "channel"
                                     ELSE "none"]
       /\ UNCHANGED <<pol_now, pol_conf, pol_last_active, not_pol>>

\* What a run finds a member to be: hibernating, of a level above the rules'
\* cap, above the bot in the role hierarchy, or none of these.
MemberStates == {"hibernating", "level2", "unkickable", "plain"}
Hibernating(st) == {m \in PolHumans : st[m] = "hibernating"}
LevelOf(st) == [m \in PolHumans |-> IF st[m] = "level2" THEN 2 ELSE 1]
Kickable(st) == {m \in PolHumans : st[m] /= "unkickable"}

\* initialize_loop: the hourly run.
HourlyRun ==
    \E st \in [PolHumans -> MemberStates] :
        run_policing(FALSE, Hibernating(st), LevelOf(st), Kickable(st))

\* manual_run, and the button of RunPolicingView.
manual_run ==
    \E st \in [PolHumans -> MemberStates] :
        run_policing(TRUE, Hibernating(st), LevelOf(st), Kickable(st))

\* activitytrackerset preview <toggle>
preview_mode_cmd(toggle) ==
    /\ preview_mode' = toggle
    /\ UNCHANGED <<pol_now, report_channel, policing_rules, in_guild, pol_last_active,
                   last_policed, last_run, not_pol>>

reportchannel ==
    /\ report_channel' = 1
    /\ UNCHANGED <<pol_now, preview_mode, policing_rules, in_guild, pol_last_active,
                   last_policed, last_run, not_pol>>

\* rule add: the rule with this level and days is updated, or a new one appended.
rule_add(level_, days, action, cooldown) ==
    LET same == {r \in policing_rules : r.level = level_ /\ r.days = days}
    IN /\ same = {} => Cardinality(policing_rules) < MaxRules
       /\ policing_rules' = (policing_rules \ same) \cup
              {[level |-> level_, days |-> days, action |-> action, cooldown |-> cooldown]}
       /\ UNCHANGED <<pol_now, preview_mode, report_channel, in_guild, pol_last_active,
                      last_policed, last_run, not_pol>>

rule_remove(level_, days) ==
    /\ policing_rules' = {r \in policing_rules : ~(r.level = level_ /\ r.days = days)}
    /\ UNCHANGED <<pol_now, preview_mode, report_channel, in_guild, pol_last_active,
                   last_policed, last_run, not_pol>>

\* markactive <member>
markactive(m) ==
    /\ m \in in_guild
    /\ pol_last_active' = [pol_last_active EXCEPT ![m] = pol_now]
    /\ UNCHANGED <<pol_now, pol_conf, in_guild, last_policed, last_run, not_pol>>

PolTick ==
    /\ pol_now < PolStartTime + PolMaxTicks * PolTickStep
    /\ pol_now' = pol_now + PolTickStep
    /\ UNCHANGED <<pol_conf, in_guild, pol_last_active, last_policed, last_run, not_pol>>

PolNext ==
    \/ HourlyRun
    \/ manual_run
    \/ \E toggle \in BOOLEAN : preview_mode_cmd(toggle)
    \/ reportchannel
    \/ \E l \in RuleLevels, d \in RuleDays, a \in RuleActions, c \in RuleCooldowns :
           rule_add(l, d, a, c)
    \/ \E l \in RuleLevels, d \in RuleDays : rule_remove(l, d)
    \/ \E m \in PolHumans : markactive(m)
    \/ PolTick


(***************************************************************************)
(*                     Properties of SortingHat                            *)
(***************************************************************************)

\* C1: members leave a guild's queue in the order they were appended to it:
\* every pop so far took the id that had waited longest, and the queue holds
\* exactly the ids appended and not yet popped, oldest first.
C1_Fifo == fifo_ok /\ guild_queues = pending

\* m2 has been popped ahead of m1, which was queued again behind it after a
\* first sort.
C1_Witness ==
    /\ sort_end /= NoGap
    /\ guild_queues = <<"m1">>
    /\ \E t \in TaskIds : tasks[t].pc = "check" /\ tasks[t].member = "m2"

\* C2: a call of sort_member that is not the first one starts at least 3600 s
\* after the call before it returned.
C2_RateLimit ==
    \A t \in TaskIds :
        (tasks[t].pc = "sort" /\ sort_end /= NoGap) => tasks[t].started - sort_end >= RateLimit

\* A second sort is running while another member is still queued.
C2_Witness ==
    \E t \in TaskIds : tasks[t].pc = "sort" /\ sort_end /= NoGap /\ guild_queues /= <<>>

\* What the claim says the scan appends: a member who is no bot, holds none of
\* the configured houses, has reached the sort level and is not queued yet.
ScanEligible(m) ==
    /\ ~IsBot(m)
    /\ roles[m] \cap scan.house_ids = {}
    /\ level[m] >= scan.target_level
    /\ m \notin Range(guild_queues)

ScanExamined(m) ==
    /\ (guild_queues' = Append(guild_queues, m)) <=> ScanEligible(m)
    /\ ~ScanEligible(m) => guild_queues' = guild_queues
    /\ scan'.added_count - scan.added_count = Len(guild_queues') - Len(guild_queues)

\* C3: each iteration of the scan appends the member it examines exactly when
\* the member is eligible, and the count the scan reports is the number of ids
\* it appended.
C3_Scan ==
    /\ [][(scan.pc = "run" /\ scan'.pc = "run" /\ scan'.idx = scan.idx + 1)
            => ScanExamined(GuildMembers[scan.idx])]_vars
    /\ [](scan.added_count = n_appended)

\* A scan is over that appended one member and left alone one who was queued.
C3_Witness ==
    /\ scan.pc = "run"
    /\ scan.idx > Len(GuildMembers)
    /\ scan.added_count = 1
    /\ Len(guild_queues) = 2

\* C4: while the system is disabled no member is appended to the queue, no
\* sort_member call starts and no member's roles change.
C4_DisabledIsQuiet ==
    [][~sh_enabled =>
          /\ Len(guild_queues') <= Len(guild_queues)
          /\ roles' = roles
          /\ \A t \in TaskIds : tasks'[t].pc = "sort" => tasks[t].pc = "sort"]_vars

(***************************************************************************)
(*              ActivityTracker: message and voice activity                *)
(***************************************************************************)

\* Two members and a bot; the bot and a1 write messages, all three use voice.
ActMembers == {"a1", "a2", "abot"}
ActIsBot(m) == m = "abot"
MsgAuthors == {"a1", "abot"}
TextChannels == {"c1", "c2"}
VoiceChannels == {"v1", "v2"}
NoChannel == "none"

\* A message's content as a sequence of pieces: "t" a character of text, "!" the
\* command prefix, "s" a blank, "e" a unicode emoji above U+FFFF (U+1F600),
\* "h" a unicode emoji of the basic plane (U+2764, U+2705, U+2B50), "k" a keycap
\* emoji (a digit, U+FE0F, U+20E3), "c" a custom emoji <:name:id>.  Discord trims a content, so none begins or ends with a
\* blank; an empty content is that of a message with only an attachment.
Contents == {<<>>, <<"t">>, <<"e">>, <<"h">>, <<"c">>, <<"!", "t">>, <<"t", "!">>,
             <<"e", "s", "c">>, <<"e", "t">>, <<"t", "s", "t">>, <<"c", "h">>}
Emojis == {"e", "h", "k", "c"}
PieceLen(x) == IF x = "c" THEN 6 ELSE IF x = "k" THEN 3 ELSE 1

HourSeconds == 3600
MinuteSeconds == 60

\* The defaults of default_guild.
DefaultMsgThreshold == 12
DefaultMsgWindowHours == 72
DefaultMinChars == 1
DefaultVoiceMinMinutes == 20
DefaultVoiceMinUsers == 2

\* Inputs of msgthreshold and voicequota.
ThresholdInputs == {1, 2}
WindowInputs == {1}
MinutesInputs == {45}
UsersInputs == {1, 3}

\* Bounds of the activity model.
MaxHistory == 3
ActMaxTicks == 3

\* The clock advances by half an hour.
ActTickStep == HourSeconds \div 2
ActStartTime == HourSeconds

NoMsg == [flip |-> FALSE, author |-> NoMember, filtered |-> FALSE]

ActInit ==
    /\ at_now = ActStartTime
    /\ msg_threshold = DefaultMsgThreshold
    /\ msg_window_hours = DefaultMsgWindowHours
    /\ min_chars = DefaultMinChars
    /\ ignore_commands = TRUE
    /\ ignored_channels = {}
    /\ voice_min_minutes = DefaultVoiceMinMinutes
    /\ voice_min_users = DefaultVoiceMinUsers
    /\ last_active = [m \in ActMembers |-> None]
    /\ message_history = [m \in ActMembers |-> <<>>]
    /\ voice_start = [m \in ActMembers |-> None]
    /\ voice = [m \in ActMembers |-> NoChannel]
    /\ last_msg = NoMsg

\* len(content)
RECURSIVE ContentLen(_)
ContentLen(c) == IF c = <<>> THEN 0 ELSE PieceLen(Head(c)) + ContentLen(Tail(c))

\* content.startswith(prefix), for the one prefix "!"
StartsWithPrefix(c) == c /= <<>> /\ Head(c) = "!"

\* str.strip()
RECURSIVE LStrip(_)
LStrip(c) == IF c /= <<>> /\ Head(c) = "s" THEN LStrip(Tail(c)) ELSE c
RECURSIVE RStrip(_)
RStrip(c) ==
    IF c /= <<>> /\ c[Len(c)] = "s" THEN RStrip(SubSeq(c, 1, Len(c) - 1)) ELSE c
Strip(c) == RStrip(LStrip(c))

\* ActivityTracker.is_emoji_only: custom emojis, then characters above U+FFFF
\* are removed, the rest is stripped, and nothing may be left.
is_emoji_only(c) ==
    LET no_custom == SelectSeq(c, LAMBDA x : x /= "c")
        no_unicode == SelectSeq(no_custom, LAMBDA x : x /= "e")
    IN Len(Strip(no_unicode)) = 0

\* t > cutoff
InWindow(t, cutoff) == t > cutoff

\* len(history) >= conf["msg_threshold"]
ThresholdMet(n, threshold) == n >= threshold

\* A content made of emojis and blanks only.
EmojiOnly(c) == c /= <<>> /\ \A i \in 1..Len(c) : c[i] \in Emojis \cup {"s"}

\* The messages that are not to count: from a bot, in a DM, in an ignored
\* channel, a command, too short, or emoji-only.
NotCounted(msg) ==
    \/ ActIsBot(msg.author)
    \/ msg.dm
    \/ msg.channel \in ignored_channels
    \/ ignore_commands /\ StartsWithPrefix(msg.content)
    \/ ContentLen(msg.content) < min_chars
    \/ EmojiOnly(msg.content)

\* on_message
on_message(msg) ==
    LET m == msg.author
        cutoff == at_now - msg_window_hours * HourSeconds
        history == SelectSeq(Append(message_history[m], at_now),
                             LAMBDA t : InWindow(t, cutoff))
    IN /\ last_msg' = [flip |-> ~last_msg.flip, author |-> m, filtered |-> NotCounted(msg)]
       /\ IF \/ msg.dm \/ ActIsBot(m)
             \/ msg.channel \in ignored_channels
             \/ ignore_commands /\ StartsWithPrefix(msg.content)
             \/ ContentLen(msg.content) < min_chars
             \/ is_emoji_only(msg.content)
          THEN UNCHANGED <<message_history, last_active>>
          ELSE /\ Len(message_history[m]) < MaxHistory
               /\ message_history' = [message_history EXCEPT ![m] = history]
               /\ last_active' = IF ThresholdMet(Len(history), msg_threshold)
                                 THEN [last_active EXCEPT ![m] = at_now]
                                 ELSE last_active
       /\ UNCHANGED <<at_now, act_conf, act_voice, not_act>>

\* msgthreshold <messages> <hours>
msgthreshold(messages, hours) ==
    /\ msg_threshold' = messages
    /\ msg_window_hours' = hours
    /\ UNCHANGED <<at_now, min_chars, ignore_commands, ignored_channels, voice_min_minutes,
                   voice_min_users, last_active, act_msg, act_voice, not_act>>

\* ignorechannel <channel>: the channel is added if absent, removed if present.
ignorechannel(c) ==
    /\ ignored_channels' = IF c \in ignored_channels THEN ignored_channels \ {c}
                           ELSE ignored_channels \cup {c}
    /\ UNCHANGED <<at_now, msg_threshold, msg_window_hours, min_chars, ignore_commands,
                   voice_min_minutes, voice_min_users, last_active, act_msg, act_voice,
                   not_act>>

MinUsersMetAlone(others, min_users) == others >= min_users - 2

\* len(before.channel.members) >= conf["voice_min_users"] - 1
MinUsersMet(others, min_users) == others >= min_users - 1

\* duration_mins >= conf["voice_min_minutes"]
DurationMet(seconds, minutes) == seconds >= minutes * MinuteSeconds

\* on_voice_state_update for member m moving from the channel voice[m] to the
\* channel to (NoChannel: out of voice).  When the listener runs the member has left
\* the old channel, so before.channel.members are the others in it.
on_voice_state_update(m, to) ==
    LET before == voice[m]
        others == Cardinality({x \in ActMembers \ {m} : voice[x] = before})
        ended == before /= NoChannel /\ to /= before
        started == to /= NoChannel /\ to /= before
        start_ts == voice_start[m]
    IN /\ ~(before = NoChannel /\ to = NoChannel)
       /\ voice' = [voice EXCEPT ![m] = to]
       /\ IF ActIsBot(m)
          THEN UNCHANGED <<voice_start, last_active>>
          ELSE /\ last_active' =
                      IF /\ ended /\ start_ts /= None
                         /\ DurationMet(at_now - start_ts, voice_min_minutes)
                         /\ MinUsersMet(others, voice_min_users)
                      THEN [last_active EXCEPT ![m] = at_now]
                      ELSE last_active
               /\ voice_start' =
                      IF started THEN [voice_start EXCEPT ![m] = at_now]
                      ELSE IF ended /\ start_ts /= None THEN [voice_start EXCEPT ![m] = None]
                      ELSE voice_start
       /\ UNCHANGED <<at_now, act_conf, act_msg, not_act>>

\* voicequota <minutes> <min_users>
voicequota(minutes, min_users) ==
    /\ voice_min_minutes' = minutes
    /\ voice_min_users' = min_users
    /\ UNCHANGED <<at_now, msg_threshold, msg_window_hours, min_chars, ignore_commands,
                   ignored_channels, last_active, act_msg, act_voice, not_act>>

ActTick ==
    /\ at_now < ActStartTime + ActMaxTicks * ActTickStep
    /\ at_now' = at_now + ActTickStep
    /\ UNCHANGED <<act_conf, last_active, act_msg, act_voice, not_act>>

MsgNext ==
    \/ \E a \in MsgAuthors, dm \in BOOLEAN, c \in TextChannels, content \in Contents :
           on_message([author |-> a, dm |-> dm, channel |-> c, content |-> content])
    \/ \E n \in ThresholdInputs, h \in WindowInputs : msgthreshold(n, h)
    \/ ignorechannel("c1")
    \/ ActTick

VoiceNext ==
    \/ \E m \in ActMembers, to \in VoiceChannels \cup {NoChannel} : on_voice_state_update(m, to)
    \/ \E n \in MinutesInputs, u \in UsersInputs : voicequota(n, u)
    \/ ActTick

(***************************************************************************)
(*           Properties of ActivityTracker's message and voice activity    *)
(***************************************************************************)

MsgStep == last_msg'.flip /= last_msg.flip

\* C8: a message sets its author's last_active, to the current time, only when
\* the recorded history then holds at least msg_threshold timestamps, all of
\* them inside the last msg_window_hours hours, older ones being dropped; a
\* message from a bot, in a DM, in an ignored channel, starting with a command
\* prefix, shorter than min_chars or emoji-only changes neither
\* message_history nor last_active.
C8_CountedMessages ==
    [][MsgStep =>
         LET m == last_msg'.author
             cutoff == at_now - msg_window_hours * HourSeconds
             recorded == message_history'[m]
         IN /\ \A x \in ActMembers \ {m} :
                  /\ message_history'[x] = message_history[x]
                  /\ last_active'[x] = last_active[x]
            /\ last_msg'.filtered =>
                  /\ message_history'[m] = message_history[m]
                  /\ last_active'[m] = last_active[m]
            /\ ~last_msg'.filtered =>
                  recorded = SelectSeq(Append(message_history[m], at_now),
                                       LAMBDA t : t > cutoff)
            /\ last_active'[m] /= last_active[m] =>
                  /\ last_active'[m] = at_now
                  /\ Cardinality({i \in DOMAIN recorded : recorded[i] > cutoff})
                        >= msg_threshold]_vars

\* C9: a member who leaves or switches voice channel gets last_active set only
\* after a recorded session of at least voice_min_minutes minutes in a channel
\* that held at least voice_min_users users, the member included; voice_start
\* is cleared when a session ends, set when a channel is joined or switched
\* to, and an update within one channel changes neither.
C9_VoiceSessions ==
    [][\A m \in ActMembers :
         LET before == voice[m]
             after == voice'[m]
             left == before /= NoChannel /\ after /= before
             joined == after /= NoChannel /\ after /= before
             held == Cardinality({x \in ActMembers : voice[x] = before})
         IN /\ last_active'[m] /= last_active[m] =>
                  /\ ~ActIsBot(m) /\ left
                  /\ last_active'[m] = at_now
                  /\ voice_start[m] /= None
                  /\ at_now - voice_start[m] >= voice_min_minutes * MinuteSeconds
                  /\ held >= voice_min_users
            /\ ~ActIsBot(m) /\ joined => voice_start'[m] = at_now
            /\ ~ActIsBot(m) /\ left /\ ~joined => voice_start'[m] = None
            /\ after = before =>
                  voice_start'[m] = voice_start[m] /\ last_active'[m] = last_active[m]
            /\ ActIsBot(m) =>
                  voice_start'[m] = voice_start[m] /\ last_active'[m] = last_active[m]]_vars

\* a1 has left the channel it shared with a2 and the session was credited.
C9_Witness ==
    /\ voice["a1"] = NoChannel /\ voice["a2"] = "v1"
    /\ voice_start["a1"] = None /\ voice_start["a2"] /= None
    /\ last_active["a1"] = at_now
    /\ voice_min_users = DefaultVoiceMinUsers

(***************************************************************************)
(*                 Properties of ActivityTracker's policing                *)
(***************************************************************************)

\* A step that is a run of run_policing.
RunStep == last_run'.flip /= last_run.flip

WarnOrMention(action) == action \in {"warn", "mention"}

C6_HourlyPreviewReports ==
    [][(RunStep /\ last_run'.mode = "hourly" /\ preview_mode /\ report_channel /= None) =>
          /\ {e[1] : e \in last_run'.report} = last_run'.due
          /\ last_run'.due /= {} => last_run'.report_to = "channel"]_vars

\* C7: in live mode a warn or mention is executed on a member only if the
\* member was never policed or the rule's cooldown has passed since
\* last_policed; last_policed becomes the run time where a warn or mention was
\* executed and stays as it was elsewhere; a kick is never held back by a
\* cooldown.
C7_Cooldown ==
    [][(RunStep /\ ~preview_mode) =>
          \A m \in PolHumans :
              /\ \A e \in last_run'.executed :
                     (e[1] = m /\ WarnOrMention(e[2].action)) =>
                         \/ last_policed[m] = None
                         \/ pol_now - last_policed[m] >= e[2].cooldown * DaySeconds
              /\ last_policed'[m] =
                     IF \E e \in last_run'.executed : e[1] = m /\ WarnOrMention(e[2].action)
                     THEN pol_now ELSE last_policed[m]
              /\ \A e \in last_run'.report :
                     (e[1] = m /\ e[2] = "kick") =>
                         (e[3] = "executed" /\ \E x \in last_run'.executed : x[1] = m)]_vars

\* A live run has held back a warn of a member who is still on cooldown.
C7_Witness ==
    /\ ~preview_mode
    /\ <<"u1", "warn", "cooldown">> \in last_run.report
    /\ last_policed["u1"] /= None

(***************************************************************************)
(*                              LowEngagement                              *)
(***************************************************************************)

LEMembers == {"e1", "ebot"}
LEIsBot(m) == m = "ebot"
LEHumans == {m \in LEMembers : ~LEIsBot(m)}

\* The messages LowEngagement is given: a member's, in a channel of the guild,
\* of each content, and an emoji-only one from a bot, in a DM, from a
\* hibernating member, from a member with an ignored role, and in an ignored
\* channel.
LEContents == {<<>>, <<"t">>, <<"e">>, <<"k">>, <<"c", "s", "h">>, <<"e", "t">>}
PlainMessage(content) ==
    [author |-> "e1", dm |-> FALSE, hib |-> FALSE, ignored_role |-> FALSE,
     ignored_channel |-> FALSE, content |-> content]
LEMessages ==
    {PlainMessage(c) : c \in LEContents} \cup
    {[PlainMessage(<<"e">>) EXCEPT !.author = "ebot"],
     [PlainMessage(<<"e">>) EXCEPT !.dm = TRUE],
     [PlainMessage(<<"e">>) EXCEPT !.hib = TRUE],
     [PlainMessage(<<"e">>) EXCEPT !.ignored_role = TRUE],
     [PlainMessage(<<"e">>) EXCEPT !.ignored_channel = TRUE]}

\* The defaults of default_guild.
DefaultStreakLimit == 5
DefaultWindowDays == 1
DefaultMaxLevelIgnored == 10
TrackEveryone == 0 - 1

\* Inputs of the lowengagementset commands, the invalid 0 included, and the
\* levels LevelUp reports.
LimitInputs == {0, 2}
DaysInputs == {0, 2}
LevelInputs == {TrackEveryone}
LELevels == {0, 11}

\* WarnSystem when trigger_warning runs: not loaded, without api, its warn
\* raising, or its warn returning.
WarnSystems == {"none", "noapi", "raises", "ok"}

\* The clock advances by two days, LEMaxTicks times.
LEMaxTicks == 2
LETickStep == 2 * DaySeconds
LEStartTime == 4 * DaySeconds

\* The level of a warn call that was not made, and of one that found no
\* WarnSystem api.
NotCalled == 0 - 1
NoApi == 0
NoLE == [flip |-> FALSE, member |-> NoMember, manual |-> FALSE, emoji |-> FALSE,
         reached |-> FALSE, level |-> NotCalled, returned |-> FALSE]

LEInit ==
    /\ le_now = LEStartTime
    /\ le_enabled = FALSE
    /\ emoji_streak_limit = DefaultStreakLimit
    /\ time_window_days = DefaultWindowDays
    /\ max_level_ignored = DefaultMaxLevelIgnored
    /\ le_level = [m \in LEMembers |-> 0]
    /\ streak = [m \in LEMembers |-> 0]
    /\ last_emoji_ts = [m \in LEMembers |-> 0]
    /\ is_flagged = [m \in LEMembers |-> FALSE]
    /\ last_le = NoLE
    /\ lvl1_returned = {}
    /\ run_len = [m \in LEMembers |-> 0]
    /\ run_ts = [m \in LEMembers |-> 0]

\* LowEngagement.is_emoji_only: custom emojis, then the characters of the
\* ranges of unicode_emoji_regex are removed (of a keycap emoji the digit
\* stays), the rest is stripped, and nothing may be left; an empty content is
\* not emoji-only.
le_is_emoji_only(c) ==
    IF c = <<>> THEN FALSE
    ELSE LET temp1 == SelectSeq(c, LAMBDA x : x /= "c")
             temp2 == SelectSeq(temp1, LAMBDA x : x \notin {"e", "h"})
         IN Len(Strip(temp2)) = 0

\* The test of line 187 with its `not` on is_flagged lost.
WarnLevelInverted(flagged, manual) ==
    IF flagged /\ ~manual THEN 1 ELSE IF manual THEN 1 ELSE 3

\* The else branch without its special case for a manual mark.
WarnLevelNoManualCase(flagged, manual) ==
    IF ~flagged /\ ~manual THEN 1 ELSE 3

\* The level of the warn call: 1 for a first automatic offence and for a manual
\* mark, 3 for an automatic offence of a flagged member.
WarnLevel(flagged, manual) ==
    IF ~flagged /\ ~manual THEN 1 ELSE IF manual THEN 1 ELSE 3

\* trigger_warning, called for the event ev.  Without WarnSystem or its api no
\* warn call is made; is_flagged is set after a level-1 call that returned, and
\* by nothing else.
trigger_warning(m, manual, ws, ev) ==
    LET called == ws \notin {"none", "noapi"}
        level_ == IF called THEN WarnLevel(is_flagged[m], manual) ELSE NoApi
        returned == called /\ ws = "ok"
        flags == level_ = 1 /\ returned
    IN /\ last_le' = [ev EXCEPT !.level = level_, !.returned = returned]
       /\ is_flagged' = IF flags THEN [is_flagged EXCEPT ![m] = TRUE] ELSE is_flagged
       /\ lvl1_returned' = IF flags THEN lvl1_returned \cup {m} ELSE lvl1_returned

\* user_level > max_level and max_level != -1
LevelIgnored(user_level, max_level) == user_level > max_level /\ max_level /= TrackEveryone

\* (now_ts - last_ts) > window_seconds
WindowExpired(gap, window_days) == gap > window_days * DaySeconds

\* current_streak >= streak_limit
LimitReached(current_streak, streak_limit) == current_streak >= streak_limit

\* The streak after one more emoji-only message.
NextStreak(current, gap, window_days) ==
    IF WindowExpired(gap, window_days) THEN 1 ELSE current + 1

\* on_message.  msg.hib is Hibernate's answer for the author.
le_on_message(msg) ==
    LET m == msg.author
        seen == /\ ~LEIsBot(m) /\ ~msg.dm /\ le_enabled /\ ~msg.hib
                /\ ~msg.ignored_role /\ ~msg.ignored_channel
        is_emoji == le_is_emoji_only(msg.content)
        ignored == LevelIgnored(le_level[m], max_level_ignored)
        current_streak == NextStreak(streak[m], le_now - last_emoji_ts[m], time_window_days)
        triggers == seen /\ is_emoji /\ ~ignored
                    /\ LimitReached(current_streak, emoji_streak_limit)
        \* the same count kept on what the messages are
        emoji == seen /\ EmojiOnly(msg.content)
        run == NextStreak(run_len[m], le_now - run_ts[m], time_window_days)
        reached == seen /\ emoji /\ ~ignored /\ run >= emoji_streak_limit
        ev == [flip |-> ~last_le.flip, member |-> m, manual |-> FALSE, emoji |-> emoji,
               reached |-> reached, level |-> NotCalled, returned |-> FALSE]
    IN /\ IF ~seen \/ (is_emoji /\ ignored)
          THEN UNCHANGED <<streak, last_emoji_ts>>
          ELSE IF ~is_emoji
          THEN /\ streak' = [streak EXCEPT ![m] = 0]
               /\ UNCHANGED last_emoji_ts
          ELSE /\ last_emoji_ts' = [last_emoji_ts EXCEPT ![m] = le_now]
               /\ streak' = [streak EXCEPT ![m] = IF triggers THEN 0 ELSE current_streak]
       /\ IF triggers THEN \E ws \in WarnSystems : trigger_warning(m, FALSE, ws, ev)
          ELSE /\ last_le' = IF seen THEN ev ELSE last_le
               /\ UNCHANGED <<is_flagged, lvl1_returned>>
       /\ IF ~seen \/ (emoji /\ ignored)
          THEN UNCHANGED <<run_len, run_ts>>
          ELSE IF ~emoji
          THEN /\ run_len' = [run_len EXCEPT ![m] = 0]
               /\ UNCHANGED run_ts
          ELSE /\ run_ts' = [run_ts EXCEPT ![m] = le_now]
               /\ run_len' = [run_len EXCEPT ![m] = IF reached THEN 0 ELSE run]
       /\ UNCHANGED <<le_now, le_conf, le_level, not_le>>

\* lowengagementset enable <toggle>
set_enable(toggle) ==
    /\ le_enabled' = toggle
    /\ UNCHANGED <<le_now, emoji_streak_limit, time_window_days, max_level_ignored,
                   le_level, le_streaks, le_warns,
                   not_le>>

\* lowengagementset limit <count>
set_limit(count) ==
    /\ emoji_streak_limit' = IF count < 1 THEN emoji_streak_limit ELSE count
    /\ UNCHANGED <<le_now, le_enabled, time_window_days, max_level_ignored,
                   le_level, le_streaks, le_warns,
                   not_le>>

\* lowengagementset days <days>
set_days(days) ==
    /\ time_window_days' = IF days < 1 THEN time_window_days ELSE days
    /\ UNCHANGED <<le_now, le_enabled, emoji_streak_limit, max_level_ignored,
                   le_level, le_streaks, le_warns,
                   not_le>>

\* lowengagementset level <level>
set_level(level_) ==
    /\ max_level_ignored' = level_
    /\ UNCHANGED <<le_now, le_enabled, emoji_streak_limit, time_window_days,
                   le_level, le_streaks, le_warns,
                   not_le>>

\* marklowengagement <member>
marklowengagement(m, ws) ==
    /\ trigger_warning(m, TRUE, ws,
                       [flip |-> ~last_le.flip, member |-> m, manual |-> TRUE,
                        emoji |-> FALSE, reached |-> FALSE, level |-> NotCalled,
                        returned |-> FALSE])
    /\ UNCHANGED <<le_now, le_conf, le_level, le_streaks, not_le>>

\* LevelUp moves a member to another level.
LELevelChange(m, l) ==
    /\ ~LEIsBot(m)
    /\ le_level[m] /= l
    /\ le_level' = [le_level EXCEPT ![m] = l]
    /\ UNCHANGED <<le_now, le_conf, le_streaks, le_warns, not_le>>

LETick ==
    /\ le_now < LEStartTime + LEMaxTicks * LETickStep
    /\ le_now' = le_now + LETickStep
    /\ UNCHANGED <<le_conf, le_level, le_streaks, le_warns, not_le>>

LENext ==
    \/ \E msg \in LEMessages : le_on_message(msg)
    \/ \E toggle \in BOOLEAN : set_enable(toggle)
    \/ \E count \in LimitInputs : set_limit(count)
    \/ \E days \in DaysInputs : set_days(days)
    \/ \E l \in LevelInputs : set_level(l)
    \/ \E m \in LEHumans, ws \in WarnSystems : marklowengagement(m, ws)
    \/ \E m \in LEMembers, l \in LELevels : LELevelChange(m, l)
    \/ LETick

(***************************************************************************)
(*                     Properties of LowEngagement                         *)
(***************************************************************************)

\* A step that handles a message of a member, and one that calls
\* trigger_warning.
LEStep == last_le'.flip /= last_le.flip /\ ~last_le'.manual
WarnStep == last_le'.flip /= last_le.flip /\ last_le'.level /= NotCalled

\* C10: a message of a tracked member calls trigger_warning exactly when it is
\* the emoji_streak_limit-th emoji-only message in a row, each within
\* time_window_days days of the one before and none but emoji-only messages in
\* between; the stored streak is 0 after that call and after every message
\* that is not emoji-only, and 1 after an emoji-only message that comes later
\* than the window after the one before.
C10_StreakWarning ==
    [][LEStep =>
         LET m == last_le'.member
             tracked == ~LevelIgnored(le_level[m], max_level_ignored)
             late == le_now - run_ts[m] > time_window_days * DaySeconds
         IN /\ WarnStep <=> last_le'.reached
            /\ WarnStep => streak'[m] = 0
            /\ ~last_le'.emoji => streak'[m] = 0
            /\ last_le'.emoji /\ tracked /\ late /\ ~last_le'.reached => streak'[m] = 1]_vars

\* A step in which trigger_warning makes a warn call, and a step of
\* marklowengagement.
CallStep == WarnStep /\ last_le'.level /= NoApi
MarkStep == last_le'.flip /= last_le.flip /\ last_le'.manual

\* C11: the warn call for an automatic offence of a member who is not flagged
\* is a level-1 call, and is_flagged is True once it has returned; a level-3
\* call is made only for a member whose is_flagged is True, and for that
\* member a level-1 call has returned without error before; no step turns an
\* is_flagged that is True into False.
C11_WarnLevels ==
    [][/\ CallStep /\ ~last_le'.manual /\ ~is_flagged[last_le'.member]
             => /\ last_le'.level = 1
                /\ last_le'.returned => is_flagged'[last_le'.member]
       /\ CallStep /\ last_le'.level = 3
             => /\ is_flagged[last_le'.member]
                /\ last_le'.member \in lvl1_returned
       /\ \A m \in LEMembers : is_flagged[m] => is_flagged'[m]]_vars

\* A flagged member has offended again and the level-3 call was made.
C11_Witness ==
    /\ ~last_le.manual
    /\ last_le.reached
    /\ last_le.level = 3
    /\ is_flagged[last_le.member]

\* C12: the warn call of a manual mark is a level-1 call, never a level-3
\* call, whether the member is flagged or not; is_flagged is True after a
\* call that returned; without WarnSystem, without its api, and after a call
\* that raised, is_flagged is what it was.
C12_ManualMark ==
    [][MarkStep =>
         /\ last_le'.level \in {NoApi, 1}
         /\ last_le'.returned => is_flagged'[last_le'.member]
         /\ ~last_le'.returned => is_flagged' = is_flagged]_vars

\* A flagged member was marked and the level-1 call raised: the flag is still
\* True.
C12_Witness ==
    /\ last_le.manual
    /\ last_le.level = 1
    /\ ~last_le.returned
    /\ is_flagged[last_le.member]

\* The _process_queue tasks that are running: created and not yet done.
RunningTasks == {t \in TaskIds : tasks[t].pc /= "done"}

\* C14: at most one _process_queue task of the guild is running, whatever
\* level-ups and sortunsorted steps come between the task's creation, its
\* awaits (the sleep, get_assigned_house, sort_member) and its end, and that
\* task is the one active_tasks names; no member id is twice in the queue.
C14_OneProcessor ==
    /\ Cardinality(RunningTasks) <= 1
    /\ RunningTasks \subseteq {active_tasks}
    /\ \A i, j \in 1..Len(guild_queues) : guild_queues[i] = guild_queues[j] => i = j

\* While the task awaits sort_member for m1, who was popped, m1 has been
\* enqueued again behind m2.
C14_Witness ==
    /\ \E t \in TaskIds : tasks[t].pc = "sort" /\ tasks[t].member = "m1"
    /\ guild_queues = <<"m2", "m1">>

(***************************************************************************)
(*                          AdvancedRoleRewards                            *)
(***************************************************************************)

RRMembers == {"p1"}
RRRoles == {"r1", "r2", "r3"}
ChainNames == {"A", "B"}

\* What get_member_level and get_tenure_days can return.
RRLevels == {0, 1}
RRDays == {0, 1}

\* The steps `rolerewardset multistep add` is given: one that asks for a level,
\* one that asks for a day as well, one that every member meets.  The command checks none of its
\* arguments, so a later step can be easier than an earlier one, and a role
\* can be the role of several steps.
StepInputs ==
    {[days |-> 0, level |-> 1, role_id |-> "r1"],
     [days |-> 1, level |-> 1, role_id |-> "r2"],
     [days |-> 0, level |-> 0, role_id |-> "r3"]}

\* The reward `rolerewardset advanced add` is given; its role is also the role
\* of a step.
AdvInputs == {[days |-> 0, level |-> 1, role_id |-> "r2"]}

\* The index `rolerewardset multistep remove` is given.
IndexInputs == {0, 1, 2}

\* The steps stored in all chains together, and the advanced rewards stored.
MaxSteps == 2
MaxRewards == 1

NoRR == [member |-> NoMember, added |-> {}, removed |-> {}, add_ok |-> TRUE,
         remove_ok |-> TRUE, fresh |-> FALSE]

RRInit ==
    /\ rr_present = [m \in RRMembers |-> TRUE]
    /\ rr_level = [m \in RRMembers |-> 0]
    /\ rr_days = [m \in RRMembers |-> 0]
    /\ rr_roles = [m \in RRMembers |-> {}]
    /\ advanced_rewards = <<>>
    /\ multistep_rewards = [name \in ChainNames |-> <<>>]
    /\ last_rr = NoRR

\* level >= step["level"] and days >= step["days"]
Meets(step, level_, days) == level_ >= step.level /\ days >= step.days

\* The highest index of a step that qualifies, whatever the steps before it.
RECURSIVE HighestQualifying(_, _, _)
HighestQualifying(steps, level_, days) ==
    IF steps = <<>> THEN 0
    ELSE IF Meets(steps[Len(steps)], level_, days) THEN Len(steps)
    ELSE HighestQualifying(SubSeq(steps, 1, Len(steps) - 1), level_, days)

\* The loop of lines 208-216 from step idx on: it stops at the first step the
\* member does not meet.  Steps are counted from 1, and 0 is the code's -1.
RECURSIVE ScanSteps(_, _, _, _, _)
ScanSteps(steps, idx, highest, level_, days) ==
    IF idx > Len(steps) THEN highest
    ELSE IF Meets(steps[idx], level_, days)
    THEN ScanSteps(steps, idx + 1, idx, level_, days)
    ELSE highest

highest_step_index(steps, level_, days) == ScanSteps(steps, 1, 0, level_, days)

\* What section 3 appends to to_add.
AdvancedAdds(rewards, held, level_, days) ==
    {r.role_id : r \in {x \in Range(rewards) : Meets(x, level_, days) /\ x.role_id \notin held}}

\* What section 6 appends to to_add and to to_remove for one chain.
ChainAdds(steps, held, level_, days) ==
    LET h == highest_step_index(steps, level_, days)
    IN IF h /= 0 /\ steps[h].role_id \notin held THEN {steps[h].role_id} ELSE {}

ChainRemoves(steps, held, level_, days) ==
    LET h == highest_step_index(steps, level_, days)
    IN IF h = 0 THEN {}
       ELSE {steps[idx].role_id : idx \in {i \in 1..Len(steps) : i /= h /\ steps[i].role_id \in held}}

\* process_member_rewards with the settings as stored.  Sections 1, 2, 4 and 5
\* append to to_add as section 3 does, on a requirement that is a case of
\* section 3's or adds a base role to it, and never append to to_remove; their
\* lists are empty here.  add_roles and remove_roles are called with a list
\* that is not empty, and each goes through (add_ok, remove_ok) or raises
\* discord.Forbidden and changes nothing.
Outcomes(role_list) == IF role_list = {} THEN {TRUE} ELSE BOOLEAN

process_member_rewards(m, level_, days) ==
    LET held == rr_roles[m]
        to_add == AdvancedAdds(advanced_rewards, held, level_, days) \cup
                  UNION {ChainAdds(multistep_rewards[name], held, level_, days) :
                         name \in ChainNames}
        to_remove == UNION {ChainRemoves(multistep_rewards[name], held, level_, days) :
                            name \in ChainNames}
    IN \E add_ok \in Outcomes(to_add), remove_ok \in Outcomes(to_remove) :
          LET added == IF add_ok THEN held \cup to_add ELSE held
          IN /\ rr_roles' = [rr_roles EXCEPT ![m] = IF remove_ok THEN added \ to_remove
                                                     ELSE added]
             /\ last_rr' = [member |-> m, added |-> to_add, removed |-> to_remove,
                            add_ok |-> add_ok, remove_ok |-> remove_ok, fresh |-> TRUE]

\* Something other than process_member_rewards has changed what it works on.
Stale == last_rr' = [NoRR EXCEPT !.member = last_rr.member]

\* One iteration of check_rewards_loop's member loop; bots are skipped there
\* and none is modelled.
check_rewards_loop(m) ==
    /\ rr_present[m]
    /\ process_member_rewards(m, rr_level[m], rr_days[m])
    /\ UNCHANGED <<rr_conf, rr_present, rr_level, rr_days, not_rr>>

\* on_member_remove: the start date is cleared; the member's roles go with
\* the membership.
on_member_remove(m) ==
    /\ rr_present[m]
    /\ rr_present' = [rr_present EXCEPT ![m] = FALSE]
    /\ rr_roles' = [rr_roles EXCEPT ![m] = {}]
    /\ rr_days' = [rr_days EXCEPT ![m] = 0]
    /\ Stale
    /\ UNCHANGED <<rr_conf, rr_level, not_rr>>

\* on_member_join: the start date is now, and the rewards are processed.
on_member_join(m) ==
    /\ ~rr_present[m]
    /\ rr_present' = [rr_present EXCEPT ![m] = TRUE]
    /\ rr_days' = [rr_days EXCEPT ![m] = 0]
    /\ process_member_rewards(m, rr_level[m], 0)
    /\ UNCHANGED <<rr_conf, rr_level, not_rr>>

\* rolerewardset startdate set <user> <date>: days is the tenure the date
\* gives.
rrs_sd_set(m, days) ==
    /\ rr_present[m]
    /\ rr_days' = [rr_days EXCEPT ![m] = days]
    /\ process_member_rewards(m, rr_level[m], days)
    /\ UNCHANGED <<rr_conf, rr_present, rr_level, not_rr>>

\* How many steps the chains hold together.
StoredSteps ==
    Cardinality(UNION {{<<name, idx>> : idx \in 1..Len(multistep_rewards[name])} :
                       name \in ChainNames})

\* rolerewardset multistep add <name> <days> <level> <role>
rrs_multi_add(name, step) ==
    /\ StoredSteps < MaxSteps
    /\ multistep_rewards' = [multistep_rewards EXCEPT ![name] = Append(@, step)]
    /\ Stale
    /\ UNCHANGED <<advanced_rewards, rr_member, not_rr>>

\* rewards[name].pop(index - 1): the position popped, counted from 1, and 0
\* for an IndexError; a negative index - 1 counts from the end.
PopPosition(steps, index) ==
    LET i == index - 1
    IN IF i >= 0 THEN (IF i < Len(steps) THEN i + 1 ELSE 0)
       ELSE (IF 0 - i <= Len(steps) THEN Len(steps) + i + 1 ELSE 0)

\* rolerewardset multistep remove <name> <index>
rrs_multi_remove(name, index) ==
    LET steps == multistep_rewards[name]
        pos == PopPosition(steps, index)
    IN /\ multistep_rewards' =
            IF steps = <<>> \/ pos = 0 THEN multistep_rewards
            ELSE [multistep_rewards EXCEPT
                    ![name] = SubSeq(steps, 1, pos - 1) \o SubSeq(steps, pos + 1, Len(steps))]
       /\ Stale
       /\ UNCHANGED <<advanced_rewards, rr_member, not_rr>>

\* rolerewardset advanced add <days> <level> <role>
rrs_adv_add(reward) ==
    /\ Len(advanced_rewards) < MaxRewards
    /\ advanced_rewards' = Append(advanced_rewards, reward)
    /\ Stale
    /\ UNCHANGED <<multistep_rewards, rr_member, not_rr>>

\* rolerewardset advanced remove <days> <level> <role>
rrs_adv_remove(reward) ==
    /\ advanced_rewards' = Without(advanced_rewards, reward)
    /\ Stale
    /\ UNCHANGED <<multistep_rewards, rr_member, not_rr>>

\* LevelUp moves a member to another level.
RRLevelChange(m, l) ==
    /\ rr_level[m] /= l
    /\ rr_level' = [rr_level EXCEPT ![m] = l]
    /\ Stale
    /\ UNCHANGED <<rr_conf, rr_present, rr_days, rr_roles, not_rr>>

\* A day passes.
RRDayPasses(m) ==
    /\ rr_present[m]
    /\ rr_days[m] + 1 \in RRDays
    /\ rr_days' = [rr_days EXCEPT ![m] = @ + 1]
    /\ Stale
    /\ UNCHANGED <<rr_conf, rr_present, rr_level, rr_roles, not_rr>>

\* A moderator gives a role to a member or takes one away.
RoleGiven(m, r) ==
    /\ rr_present[m]
    /\ r \notin rr_roles[m]
    /\ rr_roles' = [rr_roles EXCEPT ![m] = @ \cup {r}]
    /\ Stale
    /\ UNCHANGED <<rr_conf, rr_present, rr_level, rr_days, not_rr>>

RoleTaken(m, r) ==
    /\ r \in rr_roles[m]
    /\ rr_roles' = [rr_roles EXCEPT ![m] = @ \ {r}]
    /\ Stale
    /\ UNCHANGED <<rr_conf, rr_present, rr_level, rr_days, not_rr>>

RRNext ==
    \/ \E m \in RRMembers : check_rewards_loop(m)
    \/ \E m \in RRMembers : on_member_remove(m)
    \/ \E m \in RRMembers : on_member_join(m)
    \/ \E m \in RRMembers, days \in RRDays : rrs_sd_set(m, days)
    \/ \E name \in ChainNames, step \in StepInputs : rrs_multi_add(name, step)
    \/ \E name \in ChainNames, index \in IndexInputs : rrs_multi_remove(name, index)
    \/ \E reward \in AdvInputs : rrs_adv_add(reward)
    \/ \E reward \in AdvInputs : rrs_adv_remove(reward)
    \/ \E m \in RRMembers, l \in RRLevels : RRLevelChange(m, l)
    \/ \E m \in RRMembers : RRDayPasses(m)
    \/ \E m \in RRMembers, r \in RRRoles : RoleGiven(m, r)
    \/ \E m \in RRMembers, r \in RRRoles : RoleTaken(m, r)

(***************************************************************************)
(*                  Properties of AdvancedRoleRewards                      *)
(***************************************************************************)

\* A step that runs process_member_rewards.
RRStep == last_rr'.fresh

\* The member meets every step 1..k of the chain.
PrefixMet(steps, k, level_, days) == \A j \in 1..k : Meets(steps[j], level_, days)

\* The length of the longest such prefix, 0 for a member who fails step 1.
QualifyingPrefix(steps, level_, days) ==
    CHOOSE k \in 0..Len(steps) :
        /\ PrefixMet(steps, k, level_, days)
        /\ k < Len(steps) => ~Meets(steps[k + 1], level_, days)

\* The role of step i of the chain is the role of no other step of any chain
\* and of no advanced reward.
OwnRole(name, i) ==
    LET r == multistep_rewards[name][i].role_id
    IN /\ \A c \in ChainNames : \A j \in 1..Len(multistep_rewards[c]) :
              multistep_rewards[c][j].role_id = r => c = name /\ j = i
       /\ \A x \in Range(advanced_rewards) : x.role_id /= r

\* C13: when process_member_rewards runs for a member, then for each chain,
\* with k the length of the longest prefix of its steps that the member meets:
\* a role is passed to remove_roles only as a held role of a step other than
\* step k of a chain with k >= 1, and all of those are passed; the role of
\* step k is held or passed to add_roles, and nothing is passed to add_roles
\* but such roles and what the advanced rewards grant.  For a role that
\* belongs to one step only: it is newly held after the run only as the role
\* of step k, it is held after the run as the role of step k and not held as
\* the role of another step when k >= 1 (unless Discord forbids), and it is held
\* after the run exactly if it was before when the member fails step 1.
C13_Multistep ==
    [][RRStep =>
         LET m == last_rr'.member
             level_ == rr_level'[m]
             days == rr_days'[m]
             before == rr_roles[m]
             after == rr_roles'[m]
             K == [c \in ChainNames |->
                     QualifyingPrefix(multistep_rewards[c], level_, days)]
             Reached == {c \in ChainNames : K[c] >= 1}
             Target == [c \in Reached |-> multistep_rewards[c][K[c]].role_id]
             Others == [c \in Reached |->
                          {multistep_rewards[c][j].role_id :
                             j \in 1..Len(multistep_rewards[c]) \ {K[c]}}]
         IN /\ last_rr'.removed = UNION {Others[c] \cap before : c \in Reached}
            /\ \A c \in Reached : Target[c] \in before \cup last_rr'.added
            /\ last_rr'.added \subseteq
                   {Target[c] : c \in Reached} \cup
                   AdvancedAdds(advanced_rewards, before, level_, days)
            /\ last_rr'.added \cap before = {}
            /\ after = (before \cup (IF last_rr'.add_ok THEN last_rr'.added ELSE {}))
                           \ (IF last_rr'.remove_ok THEN last_rr'.removed ELSE {})
            /\ \A c \in ChainNames : \A i \in 1..Len(multistep_rewards[c]) :
                  LET r == multistep_rewards[c][i].role_id
                  IN OwnRole(c, i) =>
                       /\ r \in after \ before => i = K[c]
                       /\ last_rr'.add_ok /\ i = K[c] => r \in after
                       /\ last_rr'.remove_ok /\ K[c] >= 1 /\ i /= K[c] => r \notin after
                       /\ K[c] = 0 \/ i = K[c] => (r \in before => r \in after)
                       /\ K[c] = 0 => (r \in after => r \in before)]_vars

\* A member who held the role of step 1 has met step 2 as well: the run has
\* given the role of step 2 and taken that of step 1.
C13_Witness ==
    /\ last_rr.fresh
    /\ Len(multistep_rewards["A"]) = 2
    /\ multistep_rewards["A"][1].role_id = "r1"
    /\ multistep_rewards["A"][2].role_id = "r2"
    /\ last_rr.added = {"r2"}
    /\ last_rr.removed = {"r1"}
    /\ rr_roles[last_rr.member] = {"r2"}

(***************************************************************************)
(*                            CraftyAllowlist                              *)
(***************************************************************************)

CAMembers == {"g1"}
CARoles == {"mc"}
CAChannels == {"ch"}
Gamertags == {"tag"}
CraftyKeys == {"url", "token", "server_id"}

\* What the craftyallowlistset commands are given, the rejected -1 included.
CasDaysInputs == {0 - 1, 1}
CasLevelInputs == {0 - 1, 0, 1}

\* The levels LevelUp reports and the days a member has been in the guild.
CAMaxLevel == 1
CAMaxDays == 1

\* How many calls of check_eligibility_and_allow run at a time.
MaxHandlers == 2
HandlerIds == 1..MaxHandlers

\* A role, channel or gamertag setting that holds None.
NotSet == "None"

\* current_level when the call was not given one.
NoLevel == 0 - 1

\* A slot of handlers that holds no running call.
IdleHandler == [pc |-> "done", member |-> NoMember, current_level |-> NoLevel,
                notify_channel_id |-> NotSet]

CAInit ==
    /\ crafty = {}
    /\ req_role = NotSet
    /\ req_days = 0
    /\ req_level = 0
    /\ notify_channel = NotSet
    /\ ca_roles = [m \in CAMembers |-> {}]
    /\ ca_days = [m \in CAMembers |-> 0]
    /\ ca_level = [m \in CAMembers |-> 0]
    /\ bedrock_gamertag = [m \in CAMembers |-> NotSet]
    /\ notified_eligible = [m \in CAMembers |-> FALSE]
    /\ added_to_allowlist = [m \in CAMembers |-> FALSE]
    /\ handlers = [h \in HandlerIds |-> IdleHandler]
    /\ notifications = [m \in CAMembers |-> 0]
    /\ auto_adds = [m \in CAMembers |-> 0]

\* all([url, token, server_id])
CraftyConfigured == crafty = CraftyKeys

\* The event loop starts a call of check_eligibility_and_allow for the member;
\* it runs up to its first await, the read of the guild's settings.
StartHandler(m, current_level) ==
    /\ \E h \in HandlerIds : handlers[h].pc = "done"
    /\ LET h == CHOOSE x \in HandlerIds :
                   /\ handlers[x].pc = "done"
                   /\ \A y \in HandlerIds : handlers[y].pc = "done" => x <= y
       IN handlers' = [handlers EXCEPT ![h] = [pc |-> "settings", member |-> m,
                                               current_level |-> current_level,
                                               notify_channel_id |-> NotSet]]

\* The call returns, or an exception ends it.
Return(h) == handlers' = [handlers EXCEPT ![h] = IdleHandler]

Goto(h, pc) == handlers' = [handlers EXCEPT ![h].pc = pc]

\* Lines 116-141: the settings are read and the member is tested against
\* them: both requirements configured, the role held, the days reached, the
\* level (the event's, else LevelUp's) reached.
Eligible(m, current_level) ==
    /\ req_role /= NotSet /\ req_level /= 0
    /\ req_role \in ca_roles[m]
    /\ ca_days[m] >= req_days
    /\ current_level /= NoLevel \/ levelup_loaded
    /\ (IF current_level = NoLevel THEN ca_level[m] ELSE current_level) >= req_level

CheckSettings(h) ==
    /\ handlers[h].pc = "settings"
    /\ IF Eligible(handlers[h].member, handlers[h].current_level)
       THEN handlers' = [handlers EXCEPT ![h].pc = "gamertag",
                                         ![h].current_level = NoLevel,
                                         ![h].notify_channel_id = notify_channel]
       ELSE Return(h)
    /\ UNCHANGED <<ca_conf, ca_member, bedrock_gamertag, ca_flags, ca_sent, not_ca>>

\* Line 144: the gamertag is read; without one and without a notification
\* channel the call is over.
CheckGamertag(h) ==
    /\ handlers[h].pc = "gamertag"
    /\ IF bedrock_gamertag[handlers[h].member] /= NotSet THEN Goto(h, "added")
       ELSE IF handlers[h].notify_channel_id /= NotSet THEN Goto(h, "notified")
       ELSE Return(h)
    /\ UNCHANGED <<ca_conf, ca_member, bedrock_gamertag, ca_flags, ca_sent, not_ca>>

\* Line 147: added_to_allowlist is read.
CheckAdded(h) ==
    /\ handlers[h].pc = "added"
    /\ IF added_to_allowlist[handlers[h].member] THEN Return(h) ELSE Goto(h, "command")
    /\ UNCHANGED <<ca_conf, ca_member, bedrock_gamertag, ca_flags, ca_sent, not_ca>>

\* Line 148: send_crafty_command posts 'allowlist add' when Crafty is
\* configured; Crafty takes the command (success) or the request fails.
SendCommand(h, success) ==
    /\ handlers[h].pc = "command"
    /\ IF CraftyConfigured /\ success
       THEN /\ Goto(h, "set_added")
            /\ auto_adds' = [auto_adds EXCEPT ![handlers[h].member] = @ + 1]
       ELSE /\ Return(h)
            /\ UNCHANGED auto_adds
    /\ UNCHANGED <<ca_conf, ca_member, bedrock_gamertag, ca_flags, notifications, not_ca>>

\* Line 150
SetAdded(h) ==
    /\ handlers[h].pc = "set_added"
    /\ added_to_allowlist' = [added_to_allowlist EXCEPT ![handlers[h].member] = TRUE]
    /\ Return(h)
    /\ UNCHANGED <<ca_conf, ca_member, bedrock_gamertag, notified_eligible, ca_sent, not_ca>>

\* Line 152: notified_eligible is read.
CheckNotified(h) ==
    /\ handlers[h].pc = "notified"
    /\ IF notified_eligible[handlers[h].member] THEN Return(h) ELSE Goto(h, "notify")
    /\ UNCHANGED <<ca_conf, ca_member, bedrock_gamertag, ca_flags, ca_sent, not_ca>>

\* Lines 153-159: the prefix is fetched and the notification is sent to the
\* channel, or channel.send raises.
SendNotification(h, sent) ==
    /\ handlers[h].pc = "notify"
    /\ IF sent
       THEN /\ Goto(h, "set_notified")
            /\ notifications' = [notifications EXCEPT ![handlers[h].member] = @ + 1]
       ELSE /\ Return(h)
            /\ UNCHANGED notifications
    /\ UNCHANGED <<ca_conf, ca_member, bedrock_gamertag, ca_flags, auto_adds, not_ca>>

\* Line 160
SetNotified(h) ==
    /\ handlers[h].pc = "set_notified"
    /\ notified_eligible' = [notified_eligible EXCEPT ![handlers[h].member] = TRUE]
    /\ Return(h)
    /\ UNCHANGED <<ca_conf, ca_member, bedrock_gamertag, added_to_allowlist, ca_sent, not_ca>>

\* LevelUp raises the member's level and dispatches on_member_levelup.
ca_on_member_levelup(m) ==
    /\ levelup_loaded
    /\ ca_level[m] < CAMaxLevel
    /\ ca_level' = [ca_level EXCEPT ![m] = @ + 1]
    /\ StartHandler(m, ca_level[m] + 1)
    /\ UNCHANGED <<ca_conf, ca_roles, ca_days, bedrock_gamertag, ca_flags, ca_sent, not_ca>>

\* A role is given to the member or taken away: before.roles != after.roles.
on_member_update(m, r) ==
    /\ ca_roles' = [ca_roles EXCEPT ![m] = IF r \in @ THEN @ \ {r} ELSE @ \cup {r}]
    /\ StartHandler(m, NoLevel)
    /\ UNCHANGED <<ca_conf, ca_days, ca_level, bedrock_gamertag, ca_flags, ca_sent, not_ca>>

\* bedrock link <gamertag>
bedrock_link(m, gamertag) ==
    /\ bedrock_gamertag' = [bedrock_gamertag EXCEPT ![m] = gamertag]
    /\ StartHandler(m, NoLevel)
    /\ UNCHANGED <<ca_conf, ca_member, ca_flags, ca_sent, not_ca>>

\* allow <member>: the moderator's own 'allowlist add'.
allow_member(m, success) ==
    /\ added_to_allowlist' =
          IF bedrock_gamertag[m] /= NotSet /\ CraftyConfigured /\ success
          THEN [added_to_allowlist EXCEPT ![m] = TRUE]
          ELSE added_to_allowlist
    /\ UNCHANGED <<ca_conf, ca_member, bedrock_gamertag, notified_eligible, handlers,
                   ca_sent, not_ca>>

\* mcuninvite <member>: after 'allowlist remove' the member is allow-listed
\* no more.
mcuninvite_member(m, success) ==
    LET removed == bedrock_gamertag[m] /= NotSet /\ CraftyConfigured /\ success
    IN /\ added_to_allowlist' = IF removed THEN [added_to_allowlist EXCEPT ![m] = FALSE]
                                 ELSE added_to_allowlist
       /\ auto_adds' = IF removed THEN [auto_adds EXCEPT ![m] = 0] ELSE auto_adds
       /\ UNCHANGED <<ca_conf, ca_member, bedrock_gamertag, notified_eligible, handlers,
                      notifications, not_ca>>

\* craftyallowlistset url, token, serverid
cas_crafty(key) ==
    /\ crafty' = crafty \cup {key}
    /\ UNCHANGED <<req_role, req_days, req_level, notify_channel, ca_member,
                   bedrock_gamertag, ca_flags, handlers, ca_sent, not_ca>>

\* craftyallowlistset role <role>
cas_role(r) ==
    /\ req_role' = r
    /\ UNCHANGED <<crafty, req_days, req_level, notify_channel, ca_member,
                   bedrock_gamertag, ca_flags, handlers, ca_sent, not_ca>>

\* craftyallowlistset days <days>
cas_days(days) ==
    /\ req_days' = IF days < 0 THEN req_days ELSE days
    /\ UNCHANGED <<crafty, req_role, req_level, notify_channel, ca_member,
                   bedrock_gamertag, ca_flags, handlers, ca_sent, not_ca>>

\* craftyallowlistset level <level>
cas_level(level_) ==
    /\ req_level' = IF level_ < 0 THEN req_level ELSE level_
    /\ UNCHANGED <<crafty, req_role, req_days, notify_channel, ca_member,
                   bedrock_gamertag, ca_flags, handlers, ca_sent, not_ca>>

\* craftyallowlistset channel <channel>
cas_channel(c) ==
    /\ notify_channel' = c
    /\ UNCHANGED <<crafty, req_role, req_days, req_level, ca_member,
                   bedrock_gamertag, ca_flags, handlers, ca_sent, not_ca>>

\* A day passes.
CADayPasses(m) ==
    /\ ca_days[m] < CAMaxDays
    /\ ca_days' = [ca_days EXCEPT ![m] = @ + 1]
    /\ UNCHANGED <<ca_conf, ca_roles, ca_level, bedrock_gamertag, ca_flags, handlers,
                   ca_sent, not_ca>>

CANext ==
    \/ \E h \in HandlerIds : CheckSettings(h)
    \/ \E h \in HandlerIds : CheckGamertag(h)
    \/ \E h \in HandlerIds : CheckAdded(h)
    \/ \E h \in HandlerIds, success \in BOOLEAN : SendCommand(h, success)
    \/ \E h \in HandlerIds : SetAdded(h)
    \/ \E h \in HandlerIds : CheckNotified(h)
    \/ \E h \in HandlerIds, sent \in BOOLEAN : SendNotification(h, sent)
    \/ \E h \in HandlerIds : SetNotified(h)
    \/ \E m \in CAMembers : ca_on_member_levelup(m)
    \/ \E m \in CAMembers, r \in CARoles : on_member_update(m, r)
    \/ \E m \in CAMembers, gamertag \in Gamertags : bedrock_link(m, gamertag)
    \/ \E m \in CAMembers, success \in BOOLEAN : allow_member(m, success)
    \/ \E m \in CAMembers, success \in BOOLEAN : mcuninvite_member(m, success)
    \/ \E key \in CraftyKeys : cas_crafty(key)
    \/ \E r \in CARoles : cas_role(r)
    \/ \E days \in CasDaysInputs : cas_days(days)
    \/ \E l \in CasLevelInputs : cas_level(l)
    \/ \E c \in CAChannels : cas_channel(c)
    \/ \E m \in CAMembers : CADayPasses(m)

(***************************************************************************)
(*                    Properties of CraftyAllowlist                        *)
(***************************************************************************)

\* C15: no member is sent the eligibility notification more than once, and
\* Crafty is sent no second automatic 'allowlist add' for a member it has
\* added and not removed since, however the calls of
\* check_eligibility_and_allow for the member interleave at their awaits.
C15_AtMostOnce ==
    \A m \in CAMembers : notifications[m] <= 1 /\ auto_adds[m] <= 1

(***************************************************************************)
(*                           Specifications                                *)
(***************************************************************************)

\* All plugins as constructed, LevelUp loaded or not.
Init == SHInit /\ PolInit /\ ActInit /\ LEInit /\ RRInit /\ CAInit

\* Under the specification of the other plugins LevelUp is loaded.
InitLoaded == Init /\ levelup_loaded

SpecSH == Init /\ [][SHNext]_vars

SpecPol == InitLoaded /\ [][PolNext]_vars

SpecMsg == InitLoaded /\ [][MsgNext]_vars

SpecVoice == InitLoaded /\ [][VoiceNext]_vars

SpecLE == InitLoaded /\ [][LENext]_vars

SpecRR == InitLoaded /\ [][RRNext]_vars

SpecCA == InitLoaded /\ [][CANext]_vars

====
